---- MODULE Spec2Model ----
(***************************************************************************)
(* Model of the request-handling / data-access boundary of the forum API:  *)
(* the HTTP adapters (handlers/mod.rs), the inner handlers                  *)
(* (handlers/handlers_inner.rs), the store-backed DAOs                      *)
(* (persistance/*_dao.rs), the test doubles of the DAOs, and the relational *)
(* store the DAOs talk to.                                                  *)
(*                                                                          *)
(* Strings that are inspected character by character (UUID strings) are     *)
(* tuples of one-character strings.  A Uuid value is its 16 bytes.          *)
(*                                                                          *)
(*   questions, answers  the two tables of the store                        *)
(*   onDelete            the ON DELETE rule of the foreign key of answers:   *)
(*                       the schema is not part of the sources, so either   *)
(*                       rule is possible and is fixed at start             *)
(*   pc, call            per request slot: idle, waiting for a connection   *)
(*                       or statement in flight, and the arguments of the   *)
(*                       request in the slot                                *)
(*   inUse               connections of the pool in use                     *)
(*   last                the request completed by the step just taken       *)
(*   mock                the test double of a DAO (tests only)              *)
(*                                                                          *)
(* Steps are the stretches of code between two suspension points: an        *)
(* adapter runs its inner handler and the DAO up to the statement it awaits *)
(* (or to the response, when the DAO fails before any statement), and the   *)
(* statement's completion runs the rest of the DAO, the inner handler and   *)
(* the adapter.  The store executes a statement atomically, may fail any    *)
(* statement for reasons of its own, and generates primary keys that are    *)
(* not in use in the table.                                                 *)
(***************************************************************************)
EXTENDS Integers, Sequences, FiniteSets, TLC

VARIABLES questions, answers, onDelete, pc, call, inUse, last, mock

vars == <<questions, answers, onDelete, pc, call, inUse, last, mock>>

(***************************************************************************)
(* Bounds of the model.                                                     *)
(***************************************************************************)
NumReq == 1
NumUuids == 2
NumWriters == 2
NumTasks == 6

(***************************************************************************)
(* Program constants.                                                       *)
(***************************************************************************)
max_connections == 5
BAD_REQUEST == 400
INTERNAL_SERVER_ERROR == 500
OK == 200

(***************************************************************************)
(* Characters and UUID strings.                                             *)
(***************************************************************************)
HexLower == <<"0","1","2","3","4","5","6","7","8","9","a","b","c","d","e","f">>
HexUpper == <<"0","1","2","3","4","5","6","7","8","9","A","B","C","D","E","F">>

IsHex(c) == \E i \in 1..16 : HexLower[i] = c \/ HexUpper[i] = c

HexVal(c) == (CHOOSE i \in 1..16 : HexLower[i] = c \/ HexUpper[i] = c) - 1

UrnPrefix == <<"u","r","n",":","u","u","i","d",":">>

\* uuid::parser::parse_simple: 32 hex digits, either case.
parse_simple(s) ==
    IF \A i \in 1..32 : IsHex(s[i])
    THEN [ok |-> TRUE,
          val |-> [k \in 1..16 |-> 16 * HexVal(s[2 * k - 1]) + HexVal(s[2 * k])]]
    ELSE [ok |-> FALSE, val |-> <<>>]

HyphenPos == {9, 14, 19, 24}

\* uuid::parser::parse_hyphenated: 8-4-4-4-12 hex digits, either case.
parse_hyphenated(s) ==
    IF /\ Len(s) = 36
       /\ \A i \in 1..36 : IF i \in HyphenPos THEN s[i] = "-" ELSE IsHex(s[i])
    THEN parse_simple(SelectSeq([i \in 1..36 |-> IF i \in HyphenPos THEN "" ELSE s[i]],
                                LAMBDA c : c # ""))
    ELSE [ok |-> FALSE, val |-> <<>>]

\* Uuid::parse_str, as called by the DAOs: the simple, hyphenated, braced and
\* URN forms are accepted; everything else is an error.
parse_str(s) ==
    CASE Len(s) = 32 -> parse_simple(s)
      [] Len(s) = 36 -> parse_hyphenated(s)
      [] Len(s) = 38 /\ s[1] = "{" /\ s[38] = "}" -> parse_hyphenated(SubSeq(s, 2, 37))
      [] Len(s) = 45 /\ SubSeq(s, 1, 9) = UrnPrefix -> parse_hyphenated(SubSeq(s, 10, 45))
      [] OTHER -> [ok |-> FALSE, val |-> <<>>]

\* Uuid's Display (record.question_uuid.to_string()): lower-case hyphenated.
HexOf(u) == [i \in 1..32 |-> HexLower[(IF i % 2 = 1 THEN u[(i + 1) \div 2] \div 16
                                                     ELSE u[i \div 2] % 16) + 1]]

uuid_to_string(u) ==
    LET h == HexOf(u)
    IN SubSeq(h, 1, 8) \o <<"-">> \o SubSeq(h, 9, 12) \o <<"-">> \o SubSeq(h, 13, 16)
       \o <<"-">> \o SubSeq(h, 17, 20) \o <<"-">> \o SubSeq(h, 21, 32)

\* The text of a uuid::Error: it describes the rejected input.
uuid_error_to_string(s) == <<"invalid UUID: ">> \o s

(***************************************************************************)
(* Inputs.                                                                  *)
(***************************************************************************)
Req == 1..NumReq

Titles == {"test title"}
Descriptions == {"test description"}
Contents == {"test content"}

\* Question { title, description } (models.rs, used at questions_dao.rs:28)
Question == [title : Titles, description : Descriptions]

\* The identifiers the store's uuid default can produce.
Gen(n) == [k \in 1..16 |-> IF k = 16 THEN n ELSE 171]
UuidPool == {Gen(n) : n \in 1..NumUuids}

UpperSimple(u) == [i \in 1..32 |-> HexUpper[HexVal(HexOf(u)[i]) + 1]]

\* Well-formed identifier strings a caller may send: hyphenated lower case
\* for the odd identifiers, simple upper case for the even ones.
WellFormed == {IF n % 2 = 1 THEN uuid_to_string(Gen(n)) ELSE UpperSimple(Gen(n)) :
                 n \in 1..NumUuids}

NotAUuid == <<"n","o","t","-","a","-","u","u","i","d">>
BadHex == <<"g">> \o SubSeq(uuid_to_string(Gen(1)), 2, 36)

Malformed == {NotAUuid, BadHex}

UuidStrings == WellFormed \cup Malformed

\* Uuid::parse_str on each string a caller may send.
Parsed == [s \in UuidStrings |-> parse_str(s)]

\* The text of the parse error of each such string.
ParseError == [s \in UuidStrings |-> uuid_error_to_string(s)]

\* Uuid's to_string on each identifier of the store.
Shown == [u \in UuidPool |-> uuid_to_string(u)]

\* Answer { question_uuid, content }
Answer == [question_uuid : UuidStrings, content : Contents]

\* Texts the store may put in an error it reports.
DbTexts == {"db text 1", "db text 2"}

(***************************************************************************)
(* Errors and results.                                                      *)
(***************************************************************************)
NoSqlxError == [variant |-> "none", kind |-> "none", text |-> ""]

\* sqlx::Error: Database(db_err) or any other variant (Io).
SqlxDatabase(kind, t) == [variant |-> "Database", kind |-> kind, text |-> t]
SqlxIo(t) == [variant |-> "Io", kind |-> "none", text |-> t]

is_foreign_key_violation(db_err) == db_err.kind = "foreign_key_violation"

\* Display of the boxed database error: the store's message.
db_err_to_string(db_err) == <<db_err.text>>

\* DBError::InvalidUUID(String) and DBError::Other(Box<dyn Error>)
InvalidUUID(msg) == [variant |-> "InvalidUUID", msg |-> msg, cause |-> NoSqlxError]
Other(err) == [variant |-> "Other", msg |-> <<>>, cause |-> err]
NoDBError == [variant |-> "none", msg |-> <<>>, cause |-> NoSqlxError]

\* Result<T, DBError>
DaoOk(v) == [ok |-> TRUE, val |-> v, err |-> NoDBError]
DaoErr(e) == [ok |-> FALSE, val |-> <<>>, err |-> e]

\* enum HandlerError { BadRequest(String), InternalError(String) }
BadRequest(msg) == [variant |-> "BadRequest", msg |-> msg]
InternalError(msg) == [variant |-> "InternalError", msg |-> msg]
NoHandlerError == [variant |-> "none", msg |-> <<>>]

GenericMessage == <<"Something went wrong! Please try again.">>

default_internal_error == InternalError(GenericMessage)

\* Result<T, HandlerError>
Ok(v) == [ok |-> TRUE, val |-> v, err |-> NoHandlerError]
Err(e) == [ok |-> FALSE, val |-> <<>>, err |-> e]

(***************************************************************************)
(* Inner handlers: each takes the result of its single DAO call.            *)
(***************************************************************************)
\* create_question with the error mapping of create_answer.
Mutant_create_question(res) ==
    IF res.ok THEN Ok(res.val)
    ELSE IF res.err.variant = "InvalidUUID" THEN Err(BadRequest(res.err.msg))
         ELSE Err(default_internal_error)

create_question(res) ==
    IF res.ok THEN Ok(res.val) ELSE Err(default_internal_error)

read_questions(res) ==
    IF res.ok THEN Ok(res.val) ELSE Err(default_internal_error)

\* delete_question with the error mapping of create_answer.
Mutant_delete_question(res) ==
    IF ~res.ok
    THEN IF res.err.variant = "InvalidUUID" THEN Err(BadRequest(res.err.msg))
         ELSE Err(default_internal_error)
    ELSE Ok(<<>>)

delete_question(res) ==
    IF ~res.ok THEN Err(default_internal_error) ELSE Ok(<<>>)

\* create_answer with the error mapping of the other handlers.
Mutant_create_answer(res) ==
    IF res.ok THEN Ok(res.val) ELSE Err(default_internal_error)

create_answer(res) ==
    IF res.ok THEN Ok(res.val)
    ELSE IF res.err.variant = "InvalidUUID" THEN Err(BadRequest(res.err.msg))
         ELSE Err(default_internal_error)

\* read_answers putting the cause's text in the message.
Mutant_read_answers(res) ==
    IF res.ok THEN Ok(res.val) ELSE Err(InternalError(<<res.err.cause.text>>))

read_answers(res) ==
    IF res.ok THEN Ok(res.val) ELSE Err(default_internal_error)

delete_answer(res) ==
    IF ~res.ok THEN Err(default_internal_error) ELSE Ok(<<>>)

Ops == {"create_question", "read_questions", "delete_question",
        "create_answer", "read_answers", "delete_answer"}

\* The inner handler an endpoint is bound to (handlers/mod.rs).
Inner(op, res) ==
    CASE op = "create_question" -> create_question(res)
      [] op = "read_questions" -> read_questions(res)
      [] op = "delete_question" -> delete_question(res)
      [] op = "create_answer" -> create_answer(res)
      [] op = "read_answers" -> read_answers(res)
      [] op = "delete_answer" -> delete_answer(res)

(***************************************************************************)
(* HTTP adapters.                                                           *)
(***************************************************************************)
\* into_response answering 500 for both variants.
Mutant_into_response(e) == [status |-> INTERNAL_SERVER_ERROR, body |-> e.msg]

\* impl IntoResponse for HandlerError
into_response(e) ==
    IF e.variant = "BadRequest"
    THEN [status |-> BAD_REQUEST, body |-> e.msg]
    ELSE [status |-> INTERNAL_SERVER_ERROR, body |-> e.msg]

\* Json(value) as a response: 200 with the serialised value.
Json(v) == [status |-> OK, body |-> <<"json", v>>]

\* Result<impl IntoResponse, impl IntoResponse> of an adapter: .map(Json)
Respond(result) == IF result.ok THEN Json(result.val) ELSE into_response(result.err)

(***************************************************************************)
(* The store: tables questions and answers.                                 *)
(***************************************************************************)
Digits == <<"0","1","2","3","4","5","6","7","8","9">>

\* Display of the created_at column value.
time_to_string(t) == <<"1970-01-01 00:00:0", Digits[(t % 10) + 1]>>

\* QuestionDetail with title and description exchanged.
Mutant_QuestionDetail(record) ==
    [question_uuid |-> Shown[record.question_uuid],
     title |-> record.description,
     description |-> record.title,
     created_at |-> time_to_string(record.created_at)]

\* QuestionDetail built from a record of table questions.
QuestionDetail(record) ==
    [question_uuid |-> Shown[record.question_uuid],
     title |-> record.title,
     description |-> record.description,
     created_at |-> time_to_string(record.created_at)]

\* AnswerDetail built from a record of table answers.
AnswerDetail(record) ==
    [answer_uuid |-> Shown[record.answer_uuid],
     question_uuid |-> Shown[record.question_uuid],
     content |-> record.content,
     created_at |-> time_to_string(record.created_at)]

\* Every order in which the store may return the rows of a set.
Orders(S) == {f \in [1..Cardinality(S) -> S] : \A i, j \in 1..Cardinality(S) :
                                                   f[i] = f[j] => i = j}

\* Readings of the store's clock, the default of created_at.
Timestamps == {0}

\* Primary keys the uuid default of a table can generate next.
FreshUuids(used) == UuidPool \ used

\* A store without the foreign key: any question_uuid is accepted.
Mutant_QuestionExists(u) == TRUE

\* The foreign key answers.question_uuid -> questions.question_uuid.
QuestionExists(u) == \E q \in questions : q.question_uuid = u

\* What the foreign key does to the answers of a deleted question.
OnDeleteRules == {"CASCADE", "RESTRICT"}

\* Failures of a statement that have nothing to do with its arguments.
IoText == "connection reset"
TransientErrors == {SqlxIo(IoText)} \cup {SqlxDatabase("other", t) : t \in DbTexts}

\* What the store did with a statement: the rows it touched or its error.
SqlDone(n) == [outcome |-> "executed", rows |-> n, err |-> NoSqlxError]
SqlFailed(e) == [outcome |-> "failed", rows |-> 0, err |-> e]
NoSql == [outcome |-> "none", rows |-> 0, err |-> NoSqlxError]

(***************************************************************************)
(* Requests.  A request slot is idle or has its statement in flight on a    *)
(* pooled connection ("exec"); a new request takes the first idle slot.     *)
(* last is the request the step just taken completed, if it completed one:  *)
(* what was asked, what the store did, what the DAO returned, what the      *)
(* inner handler returned and the HTTP response.  The response is written   *)
(* out (Sent) before the next step is looked at, so that last always        *)
(* describes the step that led to the current state.                        *)
(***************************************************************************)
NoCall == [op |-> "none", arg |-> <<>>, uuid |-> <<>>]

\* Option<Result<T, DBError>>
None == [some |-> FALSE, res |-> <<>>]
Some(res) == [some |-> TRUE, res |-> res]

\* No test double has been constructed.
NoMock == [kind |-> "none", create |-> None, delete |-> None, get |-> None]

Observe(op, arg, sql, dao) ==
    [op |-> op, arg |-> arg, sql |-> sql, dao |-> dao,
     result |-> Inner(op, dao), response |-> Respond(Inner(op, dao))]

\* No request was completed by the step just taken.
Nothing == [op |-> "none", arg |-> <<>>, sql |-> NoSql, dao |-> DaoOk(<<>>),
            result |-> Ok(<<>>), response |-> [status |-> 0, body |-> <<>>]]

Init ==
    /\ questions = {}
    /\ answers = {}
    /\ onDelete \in OnDeleteRules
    /\ pc = [r \in Req |-> "idle"]
    /\ call = [r \in Req |-> NoCall]
    /\ inUse = 0
    /\ last = Nothing
    /\ mock = NoMock

\* The slot a new request takes.
Free(r) == last.op = "none" /\ pc[r] = "idle" /\ \A q \in 1..(r - 1) : pc[q] # "idle"

\* The statement of slot r is in flight.
InFlight(r, op) == last.op = "none" /\ pc[r] = "exec" /\ call[r].op = op

\* The statement is issued on a connection of the pool and awaited.  With
\* no connection free the task waits for one first.
Await(r, op, arg, uuid) ==
    /\ IF inUse < max_connections
       THEN /\ pc' = [pc EXCEPT ![r] = "exec"]
            /\ inUse' = inUse + 1
       ELSE /\ pc' = [pc EXCEPT ![r] = "acquire"]
            /\ inUse' = inUse
    /\ call' = [call EXCEPT ![r] = [op |-> op, arg |-> arg, uuid |-> uuid]]
    /\ last' = Nothing
    /\ UNCHANGED <<questions, answers, onDelete, mock>>

\* A connection has been released: a task that waited for one takes it and
\* issues its statement.
acquire(r) ==
    /\ last.op = "none"
    /\ pc[r] = "acquire"
    /\ inUse < max_connections
    /\ pc' = [pc EXCEPT ![r] = "exec"]
    /\ inUse' = inUse + 1
    /\ last' = Nothing
    /\ UNCHANGED <<questions, answers, onDelete, call, mock>>

\* The request is answered without the store having been involved.
ReturnEarly(r, op, arg, dao) ==
    /\ last' = Observe(op, arg, NoSql, dao)
    /\ UNCHANGED <<questions, answers, onDelete, pc, call, inUse, mock>>

\* POST /question
http_create_question(r, question) ==
    /\ Free(r)
    /\ Await(r, "create_question", question, <<>>)

\* GET /questions
http_read_questions(r) ==
    /\ Free(r)
    /\ Await(r, "read_questions", <<>>, <<>>)

\* DELETE /question with the statement issued before the identifier is
\* looked at.
Mutant_http_delete_question(r, question_uuid) ==
    /\ Free(r)
    /\ Await(r, "delete_question", question_uuid, Parsed[question_uuid].val)

\* DELETE /question: the DAO parses the identifier before the statement.
http_delete_question(r, question_uuid) ==
    /\ Free(r)
    /\ LET uuid == Parsed[question_uuid]
       IN IF uuid.ok
          THEN Await(r, "delete_question", question_uuid, uuid.val)
          ELSE ReturnEarly(r, "delete_question", question_uuid,
                           DaoErr(InvalidUUID(ParseError[question_uuid])))

\* POST /answer
http_create_answer(r, answer) ==
    /\ Free(r)
    /\ LET uuid == Parsed[answer.question_uuid]
       IN IF uuid.ok
          THEN Await(r, "create_answer", answer, uuid.val)
          ELSE ReturnEarly(r, "create_answer", answer,
                           DaoErr(InvalidUUID(ParseError[answer.question_uuid])))

\* GET /answers
http_read_answers(r, question_uuid) ==
    /\ Free(r)
    /\ LET uuid == Parsed[question_uuid]
       IN IF uuid.ok
          THEN Await(r, "read_answers", question_uuid, uuid.val)
          ELSE ReturnEarly(r, "read_answers", question_uuid,
                           DaoErr(InvalidUUID(ParseError[question_uuid])))

\* DELETE /answer
http_delete_answer(r, answer_uuid) ==
    /\ Free(r)
    /\ LET uuid == Parsed[answer_uuid]
       IN IF uuid.ok
          THEN Await(r, "delete_answer", answer_uuid, uuid.val)
          ELSE ReturnEarly(r, "delete_answer", answer_uuid,
                           DaoErr(InvalidUUID(ParseError[answer_uuid])))

\* A completion that keeps the connection of a statement that failed.
Mutant_Return(r, sql, dao) ==
    /\ last' = Observe(call[r].op, call[r].arg, sql, dao)
    /\ pc' = [pc EXCEPT ![r] = "idle"]
    /\ call' = [call EXCEPT ![r] = NoCall]
    /\ inUse' = IF dao.ok THEN inUse - 1 ELSE inUse
    /\ UNCHANGED <<onDelete, mock>>

\* The statement's outcome reaches the DAO, the connection goes back to the
\* pool, and the DAO's result goes through the inner handler to the response.
Return(r, sql, dao) ==
    /\ last' = Observe(call[r].op, call[r].arg, sql, dao)
    /\ pc' = [pc EXCEPT ![r] = "idle"]
    /\ call' = [call EXCEPT ![r] = NoCall]
    /\ inUse' = inUse - 1
    /\ UNCHANGED <<onDelete, mock>>

(***************************************************************************)
(* The store-backed DAOs: the statement and the translation of its outcome. *)
(***************************************************************************)
\* map_err of every statement but the insert of an answer.
map_err(err) == Other(err)

\* The insert's map_err without the foreign-key case.
Mutant_create_answer_map_err(err) == Other(err)

\* map_err of AnswersDaoImpl::create_answer.
create_answer_map_err(err) ==
    IF err.variant = "Database"
    THEN IF is_foreign_key_violation(err)
         THEN InvalidUUID(db_err_to_string(err))
         ELSE Other(err)
    ELSE Other(err)

\* The SELECT without its WHERE clause.
Mutant_answers_of_question(uuid) == answers

\* The records of SELECT * FROM answers WHERE question_uuid = $1
answers_of_question(uuid) == {a \in answers : a.question_uuid = uuid}

\* A delete that treats "no row affected" as an error.
Mutant_deleted(rows_affected) ==
    IF rows_affected = 0 THEN DaoErr(Other(SqlxDatabase("other", "row not found")))
    ELSE DaoOk(<<>>)

\* A delete that the store executed: Ok(()), however many rows it removed.
deleted(rows_affected) == DaoOk(<<>>)

\* INSERT INTO questions (title, description) VALUES ($1, $2) RETURNING *
QuestionsDaoImpl_create_question(r) ==
    /\ InFlight(r, "create_question")
    /\ \/ \E e \in TransientErrors :
            /\ UNCHANGED <<questions, answers>>
            /\ Return(r, SqlFailed(e), DaoErr(map_err(e)))
       \/ \E u \in FreshUuids({q.question_uuid : q \in questions}) :
          \E t \in Timestamps :
            LET record == [question_uuid |-> u,
                           title |-> call[r].arg.title,
                           description |-> call[r].arg.description,
                           created_at |-> t]
            IN /\ questions' = questions \cup {record}
               /\ UNCHANGED answers
               /\ Return(r, SqlDone(1), DaoOk(QuestionDetail(record)))

\* DELETE FROM questions WHERE question_uuid = $1
QuestionsDaoImpl_delete_question(r) ==
    /\ InFlight(r, "delete_question")
    /\ LET hit == {q \in questions : q.question_uuid = call[r].uuid}
           refs == {a \in answers : a.question_uuid = call[r].uuid}
       IN \/ \E e \in TransientErrors :
               /\ UNCHANGED <<questions, answers>>
               /\ Return(r, SqlFailed(e), DaoErr(map_err(e)))
          \/ /\ hit # {} /\ refs # {} /\ onDelete = "RESTRICT"
             /\ \E t \in DbTexts :
                  /\ UNCHANGED <<questions, answers>>
                  /\ Return(r, SqlFailed(SqlxDatabase("foreign_key_violation", t)),
                            DaoErr(map_err(SqlxDatabase("foreign_key_violation", t))))
          \/ /\ ~(hit # {} /\ refs # {} /\ onDelete = "RESTRICT")
             /\ questions' = questions \ hit
             /\ answers' = IF hit # {} THEN answers \ refs ELSE answers
             /\ Return(r, SqlDone(Cardinality(hit)), deleted(Cardinality(hit)))

\* SELECT * FROM questions
QuestionsDaoImpl_get_questions(r) ==
    /\ InFlight(r, "read_questions")
    /\ UNCHANGED <<questions, answers>>
    /\ \/ \E e \in TransientErrors : Return(r, SqlFailed(e), DaoErr(map_err(e)))
       \/ \E records \in Orders(questions) :
            Return(r, SqlDone(Len(records)),
                   DaoOk([i \in 1..Len(records) |-> QuestionDetail(records[i])]))

\* INSERT INTO answers (question_uuid, content) VALUES ($1, $2) RETURNING *
AnswersDaoImpl_create_answer(r) ==
    /\ InFlight(r, "create_answer")
    /\ \/ \E e \in TransientErrors :
            /\ UNCHANGED <<questions, answers>>
            /\ Return(r, SqlFailed(e), DaoErr(create_answer_map_err(e)))
       \/ /\ ~QuestionExists(call[r].uuid)
          /\ \E t \in DbTexts :
               /\ UNCHANGED <<questions, answers>>
               /\ Return(r, SqlFailed(SqlxDatabase("foreign_key_violation", t)),
                         DaoErr(create_answer_map_err(SqlxDatabase("foreign_key_violation", t))))
       \/ /\ QuestionExists(call[r].uuid)
          /\ \E u \in FreshUuids({a.answer_uuid : a \in answers}) :
             \E t \in Timestamps :
               LET record == [answer_uuid |-> u,
                              question_uuid |-> call[r].uuid,
                              content |-> call[r].arg.content,
                              created_at |-> t]
               IN /\ answers' = answers \cup {record}
                  /\ UNCHANGED questions
                  /\ Return(r, SqlDone(1), DaoOk(AnswerDetail(record)))

\* DELETE FROM answers WHERE answer_uuid = $1
AnswersDaoImpl_delete_answer(r) ==
    /\ InFlight(r, "delete_answer")
    /\ LET hit == {a \in answers : a.answer_uuid = call[r].uuid}
       IN \/ \E e \in TransientErrors :
               /\ UNCHANGED <<questions, answers>>
               /\ Return(r, SqlFailed(e), DaoErr(map_err(e)))
          \/ /\ answers' = answers \ hit
             /\ UNCHANGED questions
             /\ Return(r, SqlDone(Cardinality(hit)), deleted(Cardinality(hit)))

\* SELECT * FROM answers WHERE question_uuid = $1
AnswersDaoImpl_get_answers(r) ==
    /\ InFlight(r, "read_answers")
    /\ UNCHANGED <<questions, answers>>
    /\ \/ \E e \in TransientErrors : Return(r, SqlFailed(e), DaoErr(map_err(e)))
       \/ \E records \in Orders(answers_of_question(call[r].uuid)) :
            Return(r, SqlDone(Len(records)),
                   DaoOk([i \in 1..Len(records) |-> AnswerDetail(records[i])]))

\* The response of the request just completed has been written out.
Sent ==
    /\ last.op # "none"
    /\ last' = Nothing
    /\ UNCHANGED <<questions, answers, onDelete, pc, call, inUse, mock>>

Next ==
    \/ \E r \in Req, question \in Question : http_create_question(r, question)
    \/ \E r \in Req : http_read_questions(r)
    \/ \E r \in Req, s \in UuidStrings : http_delete_question(r, s)
    \/ \E r \in Req, answer \in Answer : http_create_answer(r, answer)
    \/ \E r \in Req, s \in UuidStrings : http_read_answers(r, s)
    \/ \E r \in Req, s \in UuidStrings : http_delete_answer(r, s)
    \/ \E r \in Req : QuestionsDaoImpl_create_question(r)
    \/ \E r \in Req : QuestionsDaoImpl_delete_question(r)
    \/ \E r \in Req : QuestionsDaoImpl_get_questions(r)
    \/ \E r \in Req : AnswersDaoImpl_create_answer(r)
    \/ \E r \in Req : AnswersDaoImpl_delete_answer(r)
    \/ \E r \in Req : AnswersDaoImpl_get_answers(r)
    \/ Sent

Spec == Init /\ [][Next]_vars

(***************************************************************************)
(* The inner handlers against the test doubles of the DAOs.  A double       *)
(* holds one pre-programmed response per operation; the operation takes it  *)
(* and panics when there is none.                                           *)
(***************************************************************************)
OneTwoThree == <<"1","2","3">>

\* The records the tests program the doubles with.
TestQuestionDetail ==
    [question_uuid |-> OneTwoThree, title |-> "test title",
     description |-> "test description", created_at |-> <<"now">>]

TestAnswerDetail ==
    [answer_uuid |-> <<"4","5","6">>, question_uuid |-> OneTwoThree,
     content |-> "test content", created_at |-> <<"now">>]

\* The errors a double can be programmed with: both variants of DBError,
\* each with two different messages or causes.
TestErrors == {InvalidUUID(<<"test">>), InvalidUUID(<<"other test">>),
               Other(SqlxIo("oh no!")), Other(SqlxIo("oh dear!"))}

Failures == {DaoErr(e) : e \in TestErrors}

QuestionsDaoMock_new ==
    /\ last.op = "none"
    /\ mock' = [kind |-> "QuestionsDaoMock", create |-> None, delete |-> None, get |-> None]
    /\ UNCHANGED <<questions, answers, onDelete, pc, call, inUse, last>>

AnswersDaoMock_new ==
    /\ last.op = "none"
    /\ mock' = [kind |-> "AnswersDaoMock", create |-> None, delete |-> None, get |-> None]
    /\ UNCHANGED <<questions, answers, onDelete, pc, call, inUse, last>>

\* mock_create_question, mock_delete_question, mock_get_questions and the
\* three of AnswersDaoMock: program the response of one operation.
Program(kind, field, response) ==
    /\ last.op = "none"
    /\ mock.kind = kind
    /\ mock' = [mock EXCEPT ![field] = Some(response)]
    /\ UNCHANGED <<questions, answers, onDelete, pc, call, inUse, last>>

mock_create_question(response) == Program("QuestionsDaoMock", "create", response)

mock_delete_question(response) == Program("QuestionsDaoMock", "delete", response)

mock_get_questions(response) == Program("QuestionsDaoMock", "get", response)

mock_create_answer(response) == Program("AnswersDaoMock", "create", response)

mock_delete_answer(response) == Program("AnswersDaoMock", "delete", response)

mock_get_answers(response) == Program("AnswersDaoMock", "get", response)

\* The test panicked in the double: no response had been programmed.
Panicked(op, arg) == [Nothing EXCEPT !.op = "panic", !.arg = <<op>>]

\* An inner handler called with a double: its single DAO call takes the
\* programmed response (or panics), and the handler maps it.
Call(kind, field, op, arg) ==
    /\ last.op = "none"
    /\ mock.kind = kind
    /\ mock' = [mock EXCEPT ![field] = None]
    /\ last' = IF mock[field].some
               THEN Observe(op, arg, NoSql, mock[field].res)
               ELSE Panicked(op, arg)
    /\ UNCHANGED <<questions, answers, onDelete, pc, call, inUse>>

test_create_question(question) ==
    Call("QuestionsDaoMock", "create", "create_question", question)

test_read_questions == Call("QuestionsDaoMock", "get", "read_questions", <<>>)

test_delete_question(question_uuid) ==
    Call("QuestionsDaoMock", "delete", "delete_question", question_uuid)

test_create_answer(answer) ==
    Call("AnswersDaoMock", "create", "create_answer", answer)

test_read_answers(question_uuid) ==
    Call("AnswersDaoMock", "get", "read_answers", question_uuid)

test_delete_answer(answer_uuid) ==
    Call("AnswersDaoMock", "delete", "delete_answer", answer_uuid)

NextMock ==
    \/ QuestionsDaoMock_new
    \/ AnswersDaoMock_new
    \/ \E res \in {DaoOk(TestQuestionDetail)} \cup Failures : mock_create_question(res)
    \/ \E res \in {DaoOk(<<>>)} \cup Failures : mock_delete_question(res)
    \/ \E res \in {DaoOk(<<TestQuestionDetail>>)} \cup Failures : mock_get_questions(res)
    \/ \E res \in {DaoOk(TestAnswerDetail)} \cup Failures : mock_create_answer(res)
    \/ \E res \in {DaoOk(<<>>)} \cup Failures : mock_delete_answer(res)
    \/ \E res \in {DaoOk(<<TestAnswerDetail>>)} \cup Failures : mock_get_answers(res)
    \/ \E question \in Question : test_create_question(question)
    \/ test_read_questions
    \/ test_delete_question(OneTwoThree)
    \/ \E content \in Contents :
         test_create_answer([question_uuid |-> OneTwoThree, content |-> content])
    \/ test_read_answers(OneTwoThree)
    \/ test_delete_answer(OneTwoThree)
    \/ Sent

SpecMock == Init /\ [][NextMock]_vars

(***************************************************************************)
(* Concurrent writers: the four operations that change the store, with     *)
(* NumWriters requests in flight at a time, so that the statement of one   *)
(* request can be executed between the issue and the execution of the      *)
(* statement of another.  The identifiers they send are well-formed: a     *)
(* request with a malformed identifier issues no statement.                *)
(***************************************************************************)
Writers == 1..NumWriters

InitWriters ==
    /\ questions = {}
    /\ answers = {}
    /\ onDelete \in OnDeleteRules
    /\ pc = [r \in Writers |-> "idle"]
    /\ call = [r \in Writers |-> NoCall]
    /\ inUse = 0
    /\ last = Nothing
    /\ mock = NoMock

NextWriters ==
    \/ \E r \in Writers, question \in Question : http_create_question(r, question)
    \/ \E r \in Writers, s \in WellFormed : http_delete_question(r, s)
    \/ \E r \in Writers, s \in WellFormed, content \in Contents :
         http_create_answer(r, [question_uuid |-> s, content |-> content])
    \/ \E r \in Writers, s \in WellFormed : http_delete_answer(r, s)
    \/ \E r \in Writers : QuestionsDaoImpl_create_question(r)
    \/ \E r \in Writers : QuestionsDaoImpl_delete_question(r)
    \/ \E r \in Writers : AnswersDaoImpl_create_answer(r)
    \/ \E r \in Writers : AnswersDaoImpl_delete_answer(r)
    \/ Sent

SpecWriters == InitWriters /\ [][NextWriters]_vars

(***************************************************************************)
(* The pool under saturation: NumTasks requests at a time, more than the   *)
(* pool has connections, each reading the questions.  A response is        *)
(* written out, and the store answers every statement it was given: no      *)
(* statement stays in flight for ever.  (Weak fairness of the store's       *)
(* answer would say nothing, because no step is taken while a response is   *)
(* being written out.)  Nothing is assumed here about which waiting task    *)
(* gets a released connection.                                              *)
(***************************************************************************)
Tasks == 1..NumTasks

InitPool ==
    /\ questions = {}
    /\ answers = {}
    /\ onDelete \in OnDeleteRules
    /\ pc = [r \in Tasks |-> "idle"]
    /\ call = [r \in Tasks |-> NoCall]
    /\ inUse = 0
    /\ last = Nothing
    /\ mock = NoMock

NextPool ==
    \/ \E r \in Tasks : http_read_questions(r)
    \/ \E r \in Tasks : acquire(r)
    \/ \E r \in Tasks : QuestionsDaoImpl_get_questions(r)
    \/ Sent

\* The store eventually answers each statement.
StoreAnswers == \A r \in Tasks : []<>(pc[r] # "exec")

FairPool == WF_vars(Sent) /\ StoreAnswers

SpecPool == InitPool /\ [][NextPool]_vars /\ FairPool

(***************************************************************************)
(* Properties.                                                              *)
(***************************************************************************)
\* Slot r's statement completes in this step.
Completes(r, op) == pc[r] = "exec" /\ call[r].op = op /\ pc'[r] = "idle"

\* The identifier a well-formed input string denotes, by construction of the
\* input strings.
Denoted(s) == CHOOSE u \in UuidPool : s = uuid_to_string(u) \/ s = UpperSimple(u)

\* C1: a create-answer request whose question_uuid is not a well-formed UUID
\* ends in HandlerError::BadRequest (HTTP 400), never in InternalError: the
\* DAO returns InvalidUUID from the parse failure, without any statement.
C1_MalformedCreateAnswerIsBadRequest ==
    (last.op = "create_answer" /\ last.arg.question_uuid \in Malformed)
        => /\ last.sql = NoSql
           /\ ~last.dao.ok /\ last.dao.err.variant = "InvalidUUID"
           /\ ~last.result.ok /\ last.result.err.variant = "BadRequest"
           /\ last.response.status = BAD_REQUEST

C1_Witness ==
    /\ last.op = "create_answer"
    /\ last.arg.question_uuid = NotAUuid
    /\ last.response.status = BAD_REQUEST

\* C2: when the insert of create_answer executes for a well-formed
\* question_uuid that is the id of no stored question, the store reports a
\* foreign-key violation, the DAO maps it to InvalidUUID, the inner handler
\* returns BadRequest, and no answer row is added; no failed create_answer
\* adds an answer row.
C2_UnknownQuestionIsBadRequest ==
    [][\A r \in Req :
         Completes(r, "create_answer") =>
            /\ (~QuestionExists(call[r].uuid) /\ last'.sql.err \notin TransientErrors)
                 => /\ last'.sql.err.kind = "foreign_key_violation"
                    /\ ~last'.dao.ok /\ last'.dao.err.variant = "InvalidUUID"
                    /\ ~last'.result.ok /\ last'.result.err.variant = "BadRequest"
                    /\ last'.response.status = BAD_REQUEST
            /\ ~last'.result.ok => answers' = answers]_vars

C2_Witness ==
    /\ last.op = "create_answer"
    /\ last.sql.err.kind = "foreign_key_violation"
    /\ last.response.status = BAD_REQUEST
    /\ questions # {}

\* C3 as stated: in every inner handler of a create operation a DAO result
\* InvalidUUID becomes BadRequest.
C3_CreateHandlersMapInvalidUUIDToBadRequest ==
    (last.op \in {"create_question", "create_answer"}
       /\ ~last.dao.ok /\ last.dao.err.variant = "InvalidUUID")
        => (~last.result.ok /\ last.result.err.variant = "BadRequest")

\* C3 as amended: of the two create handlers only create_answer translates
\* InvalidUUID to BadRequest, carrying the DAO's message; create_question
\* translates it, like every other DAO error, to the default InternalError.
C3_OnlyCreateAnswerMapsInvalidUUIDToBadRequest ==
    (~last.dao.ok /\ last.dao.err.variant = "InvalidUUID")
        => /\ last.op = "create_answer" => last.result = Err(BadRequest(last.dao.err.msg))
           /\ last.op = "create_question" => last.result = Err(default_internal_error)

C3_Witness ==
    /\ last.op = "create_question"
    /\ ~last.dao.ok /\ last.dao.err.variant = "InvalidUUID"
    /\ last.result.err.variant = "InternalError"

\* C4: create_question, read_questions, delete_question, read_answers and
\* delete_answer return InternalError, never BadRequest, whenever their DAO
\* call returns an error, InvalidUUID included.
C4_OtherHandlersReturnInternalError ==
    (last.op \in Ops \ {"create_answer"} /\ ~last.dao.ok)
        => (~last.result.ok /\ last.result.err.variant = "InternalError")

C4_Witness ==
    /\ last.op = "delete_question"
    /\ ~last.dao.ok /\ last.dao.err.variant = "InvalidUUID"
    /\ last.result.err.variant = "InternalError"

\* C5: for every DAO failure other than InvalidUUID on a create operation
\* the inner handler returns InternalError with exactly the fixed generic
\* text, whatever the cause: replacing the cause by any other cause gives
\* the same handler result.
C5_InternalErrorIsGeneric ==
    (last.op \in Ops /\ ~last.dao.ok
       /\ ~(last.op \in {"create_question", "create_answer"}
              /\ last.dao.err.variant = "InvalidUUID"))
        => /\ last.result =
                Err(InternalError(<<"Something went wrong! Please try again.">>))
           /\ \A e \in TestErrors :
                ~(last.op \in {"create_question", "create_answer"}
                    /\ e.variant = "InvalidUUID")
                  => Inner(last.op, DaoErr(e)) = last.result

C5_Witness ==
    /\ last.op = "create_answer"
    /\ ~last.dao.ok /\ last.dao.err = Other(SqlxIo("oh no!"))
    /\ last.result.err.msg = GenericMessage

\* The DAO's result for a statement that failed with err.
Failed(op, err) ==
    DaoErr(IF op = "create_answer" THEN create_answer_map_err(err) ELSE map_err(err))

\* C6: no response carries raw database error text: the response to a
\* request whose statement failed is the same whatever text the store put
\* in its error.
C6_ResponseIndependentOfStoreText ==
    (last.op \in Ops /\ last.sql.outcome = "failed")
        => \A t \in DbTexts :
             Respond(Inner(last.op, Failed(last.op, [last.sql.err EXCEPT !.text = t])))
               = last.response

\* C7: a delete_question or delete_answer of a well-formed id that
\* identifies no row of its table, when the store executes it, succeeds with
\* Ok(()) and leaves both tables unchanged; after any executed delete the id
\* identifies no row, so that a second delete of the same id succeeds too and
\* changes nothing.
C7_DeleteIsIdempotent ==
    [][\A r \in Req :
         /\ Completes(r, "delete_question") =>
              /\ (\A q \in questions : q.question_uuid # call[r].uuid)
                   => /\ questions' = questions /\ answers' = answers
                      /\ last'.sql.outcome = "executed"
                           => last'.result = Ok(<<>>) /\ last'.response.status = OK
              /\ last'.sql.outcome = "executed"
                   => \A q \in questions' : q.question_uuid # call[r].uuid
         /\ Completes(r, "delete_answer") =>
              /\ (\A a \in answers : a.answer_uuid # call[r].uuid)
                   => /\ questions' = questions /\ answers' = answers
                      /\ last'.sql.outcome = "executed"
                           => last'.result = Ok(<<>>) /\ last'.response.status = OK
              /\ last'.sql.outcome = "executed"
                   => \A a \in answers' : a.answer_uuid # call[r].uuid]_vars

C7_Witness ==
    /\ last.op = "delete_question"
    /\ last.sql.outcome = "executed" /\ last.sql.rows = 0
    /\ last.result = Ok(<<>>)
    /\ questions # {}

\* The elements of a sequence.
Range(seq) == {seq[i] : i \in 1..Len(seq)}

\* C8: a successful create_question returns a QuestionDetail with the
\* input's title and description and a well-formed question_uuid that is
\* the id of no question stored before, and stores it; a stored question
\* stays stored until a delete_question of its id executes; and a successful
\* get_questions returns every stored question exactly once.
C8_CreatedQuestionIsListed ==
    [][/\ \A r \in Req :
            /\ (Completes(r, "create_question") /\ last'.result.ok) =>
                 /\ last'.result.val.title = call[r].arg.title
                 /\ last'.result.val.description = call[r].arg.description
                 /\ last'.result.val.question_uuid \in {uuid_to_string(u) : u \in UuidPool}
                 /\ \A q \in questions :
                      uuid_to_string(q.question_uuid) # last'.result.val.question_uuid
                 /\ \E q \in questions' :
                      /\ uuid_to_string(q.question_uuid) = last'.result.val.question_uuid
                      /\ q.title = call[r].arg.title
                      /\ q.description = call[r].arg.description
                      /\ time_to_string(q.created_at) = last'.result.val.created_at
                 /\ questions \subseteq questions'
            /\ (Completes(r, "read_questions") /\ last'.result.ok) =>
                 /\ Len(last'.result.val) = Cardinality(questions)
                 /\ \A q \in questions : \E i \in 1..Len(last'.result.val) :
                      /\ last'.result.val[i].question_uuid = uuid_to_string(q.question_uuid)
                      /\ last'.result.val[i].title = q.title
                      /\ last'.result.val[i].description = q.description
                      /\ last'.result.val[i].created_at = time_to_string(q.created_at)
       /\ \A q \in questions \ questions' :
            \E r \in Req : /\ Completes(r, "delete_question")
                           /\ Denoted(call[r].arg) = q.question_uuid]_vars

C8_Witness ==
    /\ last.op = "create_question"
    /\ last.result.ok
    /\ Cardinality(questions) = 2
    /\ \E q \in questions : uuid_to_string(q.question_uuid) = last.result.val.question_uuid

\* C9: get_answers of a well-formed question_uuid q, when the store executes
\* it, succeeds and returns exactly the stored answers whose question_uuid
\* is q, each once, and no answer of another question; with no such answer
\* (also when q is the id of no question) it returns the empty sequence.
C9_GetAnswersIsScoped ==
    (last.op = "read_answers" /\ last.arg \in WellFormed /\ last.sql.outcome # "failed")
        => LET mine == {a \in answers : a.question_uuid = Denoted(last.arg)}
           IN /\ last.sql.outcome = "executed"
              /\ last.result.ok /\ last.response.status = OK
              /\ Len(last.result.val) = Cardinality(mine)
              /\ Range(last.result.val) =
                   {[answer_uuid |-> uuid_to_string(a.answer_uuid),
                     question_uuid |-> uuid_to_string(a.question_uuid),
                     content |-> a.content,
                     created_at |-> time_to_string(a.created_at)] : a \in mine}
              /\ mine = {} => last.result.val = <<>>

C9_Witness ==
    /\ last.op = "read_answers"
    /\ last.result.ok
    /\ Len(last.result.val) = 1
    /\ \E a \in answers : a.question_uuid # Denoted(last.arg)

\* C10: BadRequest(msg) becomes 400 with msg as body and InternalError(msg)
\* becomes 500 with msg as body; the only endpoint that answers 400 is
\* create-answer, and every failure of the other five endpoints, a malformed
\* UUID on read or delete included, is a 500.
C10_StatusCodes ==
    last.op \in Ops =>
        /\ last.result.ok => last.response.status = OK
        /\ (~last.result.ok /\ last.result.err.variant = "BadRequest")
             => last.response = [status |-> 400, body |-> last.result.err.msg]
        /\ (~last.result.ok /\ last.result.err.variant = "InternalError")
             => last.response = [status |-> 500, body |-> last.result.err.msg]
        /\ last.response.status = 400 => last.op = "create_answer"
        /\ (~last.dao.ok /\ last.op # "create_answer") => last.response.status = 500

C10_Witness ==
    /\ last.op = "delete_question"
    /\ last.arg \in Malformed
    /\ last.response.status = 500

\* C11: referential integrity is an invariant of the store: in every state
\* reachable by any interleaving of concurrent create_question,
\* delete_question, create_answer and delete_answer requests, every stored
\* answer's question_uuid is the question_uuid of a stored question, also
\* when a create_answer of q and a delete_question of q are in flight
\* together.
C11_NoOrphanAnswer ==
    \A a \in answers : \E q \in questions : q.question_uuid = a.question_uuid

\* The delete_question of q has just removed q while the statement of a
\* create_answer of q, issued when q was stored, is still in flight.
C11_Witness ==
    /\ last.op = "delete_question"
    /\ last.sql.outcome = "executed" /\ last.sql.rows = 1
    /\ \E r \in Writers :
         /\ pc[r] = "exec"
         /\ call[r].op = "create_answer"
         /\ call[r].uuid = Denoted(last.arg)
         /\ ~QuestionExists(call[r].uuid)

\* The operations whose DAO takes an identifier string, and that string.
UuidOps == {"delete_question", "create_answer", "delete_answer", "read_answers"}

UuidArg(op, arg) == IF op = "create_answer" THEN arg.question_uuid ELSE arg

\* C12: delete_question, create_answer, delete_answer and get_answers parse
\* their identifier before any store access.  A request with a malformed
\* identifier is answered in the step that accepts it, with
\* DBError::InvalidUUID carrying the parse error, no statement issued, no
\* connection taken and the store unchanged; a request with a well-formed
\* one issues a statement when it is accepted and is answered by the step
\* that completes that statement, after which its task has none in flight.
\* The inner handler's result is the mapping of that one DAO result.
C12_ParseBeforeStatement ==
    [][/\ \A r \in Req :
            (pc[r] = "idle" /\ pc'[r] = "exec") =>
                /\ call'[r].op \in UuidOps =>
                     /\ UuidArg(call'[r].op, call'[r].arg) \in WellFormed
                     /\ call'[r].uuid = Denoted(UuidArg(call'[r].op, call'[r].arg))
                /\ inUse' = inUse + 1
                /\ questions' = questions /\ answers' = answers
                /\ last' = Nothing
       /\ (last.op = "none" /\ last'.op \in UuidOps) =>
            /\ last'.result = Inner(last'.op, last'.dao)
            /\ IF UuidArg(last'.op, last'.arg) \in Malformed
               THEN /\ last'.sql = NoSql
                    /\ last'.dao = DaoErr(InvalidUUID(
                           uuid_error_to_string(UuidArg(last'.op, last'.arg))))
                    /\ questions' = questions /\ answers' = answers
                    /\ pc' = pc /\ call' = call /\ inUse' = inUse
               ELSE /\ last'.sql.outcome \in {"executed", "failed"}
                    /\ inUse' = inUse - 1
                    /\ \E r \in Req :
                         /\ pc[r] = "exec" /\ pc'[r] = "idle"
                         /\ call[r].op = last'.op /\ call[r].arg = last'.arg
                         /\ \A q \in Req \ {r} : pc'[q] = pc[q] /\ call'[q] = call[q]]_vars

\* A get_answers with a malformed identifier has been answered without a
\* statement, with answers in the store.
C12_Witness ==
    /\ last.op = "read_answers"
    /\ last.arg \in Malformed
    /\ last.sql = NoSql
    /\ ~last.dao.ok /\ last.dao.err.variant = "InvalidUUID"
    /\ answers # {}
    /\ inUse = 0

\* The connections in use are those of the tasks with a statement in
\* flight, one each, and never more than the pool has.
OneConnectionEach ==
    /\ inUse = Cardinality({r \in Tasks : pc[r] = "exec"})
    /\ inUse <= max_connections

\* C13: with a pool of max_connections connections and more concurrent
\* requests than that, every request is eventually answered, provided the
\* store answers each statement and acquisition is fair to the request's
\* task (a task that finds a connection free again and again gets one): a
\* task holds one connection while its statement is in flight and gives it
\* back when the statement completes or fails, so a saturated pool delays a
\* request but does not block it for ever.
C13_EveryRequestAnswered ==
    /\ []OneConnectionEach
    /\ \A r \in Tasks :
         SF_vars(acquire(r)) => ((pc[r] # "idle") ~> (pc[r] = "idle"))

\* The pool is saturated and a task waits for a connection.
C13_Witness ==
    /\ inUse = max_connections
    /\ \E r \in Tasks : pc[r] = "acquire"

====
